---- MODULE Spec2Model ----
(***************************************************************************)
(* The Grid state machine of CLI-Tetris (src/main.py): the board, the      *)
(* falling shape, the next shape, score, speed and the frame counter, and  *)
(* the operations the main loop calls on it.                               *)
(*                                                                         *)
(* Python lists are modelled as sequences; a list index i is the sequence  *)
(* index i + 1.  Rows and columns in coordinates stay 0-based as in the    *)
(* source.                                                                 *)
(***************************************************************************)
EXTENDS Integers, Sequences, FiniteSets

\* Grid(width, height, speed): the constructor's arguments, in a run from
\* construction on all seven shapes (Spec) and in the deeper runs on fewer.
Width == 4
Height == 4
DeepHeight == 5
\* frame_counter is unbounded in the source: the number of move_down calls the
\* main loop makes in a run from construction (one gated tick), in a run of
\* SpecDeep (three) and in a run of SpecLong (four).
MaxFrames == 17
DeepFrames == 48
LongFrames == 64
\* random.choice(SHAPES_LIST) has seven outcomes in the source: the number of
\* them, counted along ShapeOrder, that a run of SpecDeep, of SpecLong and of
\* SpecLive draws from.
DeepShapes == 2
LongShapes == 1
LiveShapes == 1

\* `if self.frame_counter % 16 == 0`
FramesPerMove == 16

VARIABLES
    width,                   \* self.width
    height,                  \* self.height
    grid_list,               \* self.grid_list: height rows of width cells in 0..2
    current_shape,           \* self.current_shape: a mask, or None
    next_shape,              \* self.next_shape
    current_shape_location,  \* self.current_shape_location: <<row, col>>
    game_over,               \* self.game_over
    score,                   \* self.score
    speed,                   \* self.speed, as the number of `*= .95` applied to it
    frame_counter,           \* self.frame_counter
    fall_speed_mult,         \* self.fall_speed_mult
    pc,                      \* main(): "start" before grid.new_shape(...), then "loop";
                             \* "clear", "oracle", "asked" where one method is called alone
    last_op,                 \* history: <<method called last, its input, what it did>>
    last_lock,               \* history: rows cleared if the last call locked, else -1
    ticks_only,              \* history: no key method has been called yet
    spawned_at,              \* history: frame_counter when new_shape was last called
    choices,                 \* the shapes random.choice(SHAPES_LIST) returns in this run
    horizon                  \* the number of move_down calls main() makes in this run

vars == <<width, height, grid_list, current_shape, next_shape, current_shape_location,
          game_over, score, speed, frame_counter, fall_speed_mult, pc,
          last_op, last_lock, ticks_only, spawned_at, choices, horizon>>

\* The run's inputs, which no method changes.
inputs == <<width, height, choices, horizon>>

\* Python's None for current_shape (`not self.current_shape` is true of it).
None == <<>>

\* tetris_objects.py: the seven tetromino masks, rows of 0/1.
l_shape == << <<1, 0>>, <<1, 0>>, <<1, 1>> >>
j_shape == << <<0, 1>>, <<0, 1>>, <<1, 1>> >>
t_shape == << <<0, 1, 0>>, <<1, 1, 1>> >>
o_shape == << <<1, 1>>, <<1, 1>> >>
i_shape == << <<1, 1, 1, 1>> >>
s_shape == << <<0, 1, 1>>, <<1, 1, 0>> >>
z_shape == << <<1, 1, 0>>, <<0, 1, 1>> >>

SHAPES_LIST == {l_shape, j_shape, t_shape, o_shape, i_shape, s_shape, z_shape}

\* The shapes of SHAPES_LIST in the order the deeper runs admit them: the I and
\* O pieces, which complete the rows of a board four cells wide, come first.
ShapeOrder == <<i_shape, o_shape, s_shape, z_shape, t_shape, l_shape, j_shape>>

\* The outcomes of random.choice(SHAPES_LIST) in a run that draws from the
\* first n shapes of ShapeOrder.
FirstShapes(n) == {ShapeOrder[k] : k \in 1..n}

points_granted == <<40, 100, 300, 1200>>

EmptyRow == [c \in 1..width |-> 0]

\* sum(row)
RECURSIVE SumSeq(_)
SumSeq(s) == IF s = <<>> THEN 0 ELSE Head(s) + SumSeq(Tail(s))

\* The comprehension of draw_shape and can_move: the occupied mask cells offset
\* by (row, col), in row-major order.
RECURSIVE CoordsFrom(_, _, _, _, _)
CoordsFrom(shape, row, col, i, j) ==
    IF i > Len(shape) THEN <<>>
    ELSE IF j > Len(shape[i]) THEN CoordsFrom(shape, row, col, i + 1, 1)
    ELSE IF shape[i][j] # 0
         THEN <<(<<(i - 1) + row, (j - 1) + col>>)>> \o CoordsFrom(shape, row, col, i, j + 1)
         ELSE CoordsFrom(shape, row, col, i, j + 1)

shape_coords(shape, row, col) == CoordsFrom(shape, row, col, 1, 1)

update_cells(g, row, col, value) ==
    IF width > col /\ col >= 0 /\ height > row /\ row >= 0
    THEN [g EXCEPT ![row + 1][col + 1] = value]
    ELSE g

RECURSIVE DrawLoop(_, _, _)
DrawLoop(g, coords, value) ==
    IF coords = <<>> THEN g
    ELSE DrawLoop(update_cells(g, Head(coords)[1], Head(coords)[2], value),
                  Tail(coords), value)

draw_shape(g, shape, row, col, value) ==
    DrawLoop(g, shape_coords(shape, row, col), value)

\* Variant: every cell that is not Empty collides, the Active ones too.
can_move_rejects_active(g, shape, new_pos) ==
    LET coords == shape_coords(shape, new_pos[1], new_pos[2])
    IN \A k \in 1..Len(coords) :
          LET row == coords[k][1]
              col == coords[k][2]
          IN /\ ~(col < 0 \/ col >= width \/ row < 0 \/ row >= height)
             /\ g[row + 1][col + 1] = 0

can_move(g, shape, new_pos) ==
    LET coords == shape_coords(shape, new_pos[1], new_pos[2])
    IN \A k \in 1..Len(coords) :
          LET row == coords[k][1]
              col == coords[k][2]
          IN /\ ~(col < 0 \/ col >= width \/ row < 0 \/ row >= height)
             /\ g[row + 1][col + 1] # 2

\* np.rot90(m): counter-clockwise, result[i][j] = m[j][ncols - 1 - i].
rot90(shape) ==
    LET nrows == Len(shape)
        ncols == Len(shape[1])
    IN [i \in 1..ncols |-> [j \in 1..nrows |-> shape[j][ncols + 1 - i]]]

\* Variant: the scan steps over the row that follows a deleted one.
RECURSIVE RowLoopSkips(_, _, _)
RowLoopSkips(g, i, num_completed) ==
    IF i > Len(g) THEN [grid |-> g, num |-> num_completed]
    ELSE IF SumSeq(g[i]) = width * 2
         THEN RowLoopSkips(<<EmptyRow>> \o SubSeq(g, 1, i - 1) \o SubSeq(g, i + 1, Len(g)),
                           i + 2, num_completed + 1)
         ELSE RowLoopSkips(g, i + 1, num_completed)

\* Variant: the scan ends at the first row it deletes.
RECURSIVE RowLoopStopsAtFirst(_, _, _)
RowLoopStopsAtFirst(g, i, num_completed) ==
    IF i > Len(g) THEN [grid |-> g, num |-> num_completed]
    ELSE IF SumSeq(g[i]) = width * 2
         THEN [grid |-> <<EmptyRow>> \o SubSeq(g, 1, i - 1) \o SubSeq(g, i + 1, Len(g)),
               num |-> num_completed + 1]
         ELSE RowLoopStopsAtFirst(g, i + 1, num_completed)

\* The loop of row_is_complete: enumerate(self.grid_list) while rows are
\* deleted at i and an empty row is inserted at 0.  i is the sequence index.
RECURSIVE RowLoop(_, _, _)
RowLoop(g, i, num_completed) ==
    IF i > Len(g) THEN [grid |-> g, num |-> num_completed]
    ELSE IF SumSeq(g[i]) = width * 2
         THEN RowLoop(<<EmptyRow>> \o SubSeq(g, 1, i - 1) \o SubSeq(g, i + 1, Len(g)),
                      i + 1, num_completed + 1)
         ELSE RowLoop(g, i + 1, num_completed)

row_is_complete(g) == RowLoop(g, 1, 0)

\* Variant: the mask is centred on the difference of the widths.
SpawnLocationOfDifference(shape) == <<0, (width - Len(shape[1])) \div 2>>

\* new_shape(shape), called on the board g.
SpawnLocation(shape) == <<0, width \div 2 - Len(shape[1]) \div 2>>

\* Variant: a blocked spawn sets game_over and keeps the shape.
new_shape_keeps_shape(shape, g) ==
    /\ current_shape_location' = SpawnLocation(shape)
    /\ current_shape' = shape
    /\ game_over' = IF ~can_move(g, shape, SpawnLocation(shape)) THEN TRUE ELSE game_over

new_shape(shape, g) ==
    /\ current_shape_location' = SpawnLocation(shape)
    /\ IF ~can_move(g, shape, SpawnLocation(shape))
       THEN game_over' = TRUE /\ current_shape' = None
       ELSE game_over' = game_over /\ current_shape' = shape

\* Variant: the points of one row for each completed row.
GivePointsPerRow(num_completed) ==
    IF num_completed # 0
    THEN score' = score + points_granted[1] * num_completed /\ speed' = speed + 1
    ELSE score' = score /\ speed' = speed

\* Variant: speed is multiplied once for each completed row.
GivePointsSpeedPerRow(num_completed) ==
    IF num_completed # 0
    THEN /\ score' = score + points_granted[(num_completed - 1) + 1]
         /\ speed' = speed + num_completed
    ELSE score' = score /\ speed' = speed

\* The tail of row_is_complete: points and speed for num_completed rows.
GivePoints(num_completed) ==
    IF num_completed # 0
    THEN score' = score + points_granted[(num_completed - 1) + 1] /\ speed' = speed + 1
    ELSE score' = score /\ speed' = speed

\* Variant: the shape spawned is a fresh random choice, not the stored next shape.
lock_shape_spawns_choice ==
    LET locked == draw_shape(grid_list, current_shape,
                             current_shape_location[1], current_shape_location[2], 2)
        done == row_is_complete(locked)
    IN /\ grid_list' = done.grid
       /\ GivePoints(done.num)
       /\ last_lock' = done.num
       /\ \E choice \in choices : next_shape' = choice
       /\ \E fresh \in choices : new_shape(fresh, done.grid)
       /\ spawned_at' = frame_counter'

lock_shape ==
    LET locked == draw_shape(grid_list, current_shape,
                             current_shape_location[1], current_shape_location[2], 2)
        done == row_is_complete(locked)
    IN /\ grid_list' = done.grid
       /\ GivePoints(done.num)
       /\ last_lock' = done.num
       /\ \E choice \in choices : next_shape' = choice
       /\ new_shape(next_shape, done.grid)
       /\ spawned_at' = frame_counter'

\* self.row_is_complete() on its own, on the board as it stands.
row_is_complete_call ==
    LET done == row_is_complete(grid_list)
    IN /\ pc = "clear"
       /\ grid_list' = done.grid
       /\ GivePoints(done.num)
       /\ last_lock' = done.num
       /\ last_op' = <<"row_is_complete", grid_list, "cleared">>
       /\ UNCHANGED <<current_shape, next_shape, current_shape_location, game_over,
                      frame_counter, fall_speed_mult, pc, ticks_only, spawned_at, inputs>>

\* Variant: the new footprint is drawn and the old one is not erased.
RedrawWithoutErase(shape, pos) ==
    /\ grid_list' = draw_shape(grid_list, shape, pos[1], pos[2], 1)
    /\ current_shape' = shape
    /\ current_shape_location' = pos
    /\ spawned_at' = spawned_at

\* The accepted branch of every move: erase the old footprint, take the new
\* mask and location, draw the footprint there.
Redraw(shape, pos) ==
    /\ grid_list' = draw_shape(
           draw_shape(grid_list, current_shape,
                      current_shape_location[1], current_shape_location[2], 0),
           shape, pos[1], pos[2], 1)
    /\ current_shape' = shape
    /\ current_shape_location' = pos
    /\ spawned_at' = spawned_at

\* `if not self.current_shape: return`
NoShape == current_shape = None

\* A return with nothing done.
Return == UNCHANGED <<grid_list, current_shape, current_shape_location, spawned_at>>

\* Variant: the gate opens every 8 frames.
GatedEveryEight(counter) == counter % (FramesPerMove \div 2) = 0

\* `if self.frame_counter % 16 == 0`, on the incremented counter.
Gated(counter) == counter % FramesPerMove = 0

\* Grid(w, h, speed), in a run that draws shapes from bag and calls move_down
\* at most frames times.  fall_speed_mult is 1 and nothing assigns it.
Constructed(w, h, bag, frames) ==
    /\ width = w
    /\ height = h
    /\ choices = bag
    /\ horizon = frames
    /\ grid_list = [r \in 1..h |-> [c \in 1..w |-> 0]]
    /\ current_shape = None
    /\ next_shape \in bag
    /\ current_shape_location = <<0, 0>>
    /\ game_over = FALSE
    /\ score = 0
    /\ speed = 0
    /\ frame_counter = 0
    /\ fall_speed_mult = 1
    /\ pc = "start"
    /\ last_op = <<"init", 0, "none">>
    /\ last_lock = -1
    /\ ticks_only = TRUE
    /\ spawned_at = 0

Init == Constructed(Width, Height, SHAPES_LIST, MaxFrames)

\* main(): grid.new_shape(random.choice(SHAPES_LIST))
first_shape ==
    /\ pc = "start"
    /\ pc' = "loop"
    /\ \E shape \in choices : new_shape(shape, grid_list)
    /\ spawned_at' = frame_counter
    /\ last_op' = <<"new_shape", 0, IF game_over' THEN "blocked" ELSE "spawned">>
    /\ last_lock' = -1
    /\ UNCHANGED <<grid_list, next_shape, score, speed, frame_counter,
                   fall_speed_mult, ticks_only, inputs>>

\* Variant: a shape that can move down by no row is left where it is.
FallWithoutLock ==
    LET new_position == <<current_shape_location[1] + fall_speed_mult,
                          current_shape_location[2]>>
    IN IF can_move(grid_list, current_shape, new_position)
       THEN /\ Redraw(current_shape, new_position)
            /\ last_op' = <<"move_down", 0, "fell">>
            /\ last_lock' = -1
            /\ UNCHANGED <<next_shape, game_over, score, speed>>
       ELSE /\ Return
            /\ last_op' = <<"move_down", 0, "idle">>
            /\ last_lock' = -1
            /\ UNCHANGED <<next_shape, game_over, score, speed>>

\* The gated branch of move_down: the multiplied move, the one-row retry, the lock.
Fall ==
    LET new_position == <<current_shape_location[1] + fall_speed_mult,
                          current_shape_location[2]>>
        one_row == <<current_shape_location[1] + 1, current_shape_location[2]>>
    IN IF can_move(grid_list, current_shape, new_position)
       THEN /\ Redraw(current_shape, new_position)
            /\ last_op' = <<"move_down", 0, "fell">>
            /\ last_lock' = -1
            /\ UNCHANGED <<next_shape, game_over, score, speed>>
       ELSE IF can_move(grid_list, current_shape, one_row)
            THEN /\ Redraw(current_shape, one_row)
                 /\ last_op' = <<"move_down", 0, "retried">>
                 /\ last_lock' = -1
                 /\ UNCHANGED <<next_shape, game_over, score, speed>>
            ELSE /\ lock_shape
                 /\ last_op' = <<"move_down", 0, "locked">>

\* Variant: the other branch of move_down does nothing to the board.
ReassertNothing ==
    /\ last_op' = <<"move_down", 0, "idle">>
    /\ last_lock' = -1
    /\ UNCHANGED <<grid_list, current_shape, next_shape, current_shape_location,
                   game_over, score, speed, spawned_at>>

\* The other branch of move_down: the shape is drawn again where it is.
Reassert ==
    /\ grid_list' = draw_shape(grid_list, current_shape,
                               current_shape_location[1], current_shape_location[2], 1)
    /\ last_op' = <<"move_down", 0, "idle">>
    /\ last_lock' = -1
    /\ UNCHANGED <<current_shape, next_shape, current_shape_location,
                   game_over, score, speed, spawned_at>>

\* Variant: a tick that finds no shape clears the game-over flag.
TickReturnClearsFlag ==
    /\ last_op' = <<"move_down", 0, "none">>
    /\ last_lock' = -1
    /\ Return
    /\ game_over' = FALSE
    /\ UNCHANGED <<next_shape, score, speed>>

\* Variant: a tick that finds no shape spawns the next shape.
TickReturnSpawns ==
    /\ last_op' = <<"move_down", 0, "none">>
    /\ last_lock' = -1
    /\ new_shape(next_shape, grid_list)
    /\ spawned_at' = frame_counter'
    /\ UNCHANGED <<grid_list, next_shape, score, speed>>

\* move_down returning at `if not self.current_shape`.
TickReturn ==
    /\ last_op' = <<"move_down", 0, "none">>
    /\ last_lock' = -1
    /\ Return
    /\ UNCHANGED <<next_shape, game_over, score, speed>>

move_down ==
    /\ pc = "loop"
    /\ frame_counter < horizon
    /\ frame_counter' = frame_counter + 1
    /\ UNCHANGED <<fall_speed_mult, pc, ticks_only, inputs>>
    /\ IF NoShape
       THEN TickReturn
       ELSE IF Gated(frame_counter') THEN Fall ELSE Reassert

\* What the three key methods leave alone.
KeyFrame ==
    /\ pc = "loop"
    /\ ticks_only' = FALSE
    /\ last_lock' = -1
    /\ UNCHANGED <<next_shape, game_over, score, speed, frame_counter,
                   fall_speed_mult, pc, inputs>>

\* Variant: a shape that cannot be moved down by the key is locked.
move_down_on_key_locks ==
    /\ pc = "loop"
    /\ ticks_only' = FALSE
    /\ UNCHANGED <<frame_counter, fall_speed_mult, pc, inputs>>
    /\ IF NoShape
       THEN /\ Return
            /\ last_op' = <<"move_down_on_key", 0, "none">>
            /\ last_lock' = -1
            /\ UNCHANGED <<next_shape, game_over, score, speed>>
       ELSE LET new_position == <<current_shape_location[1] + 1,
                                  current_shape_location[2]>>
            IN IF can_move(grid_list, current_shape, new_position)
               THEN /\ Redraw(current_shape, new_position)
                    /\ last_op' = <<"move_down_on_key", 0, "moved">>
                    /\ last_lock' = -1
                    /\ UNCHANGED <<next_shape, game_over, score, speed>>
               ELSE /\ lock_shape
                    /\ last_op' = <<"move_down_on_key", 0, "locked">>

\* Variant: the shape is moved down whatever can_move answers.
move_down_on_key_unchecked ==
    /\ KeyFrame
    /\ IF NoShape
       THEN Return /\ last_op' = <<"move_down_on_key", 0, "none">>
       ELSE /\ Redraw(current_shape, <<current_shape_location[1] + 1,
                                       current_shape_location[2]>>)
            /\ last_op' = <<"move_down_on_key", 0, "moved">>

move_down_on_key ==
    /\ KeyFrame
    /\ IF NoShape
       THEN Return /\ last_op' = <<"move_down_on_key", 0, "none">>
       ELSE LET new_position == <<current_shape_location[1] + 1,
                                  current_shape_location[2]>>
            IN IF can_move(grid_list, current_shape, new_position)
               THEN /\ Redraw(current_shape, new_position)
                    /\ last_op' = <<"move_down_on_key", 0, "moved">>
               ELSE Return /\ last_op' = <<"move_down_on_key", 0, "rejected">>

\* Variant: the shape is moved whatever can_move answers.
move_side_unchecked(side) ==
    /\ KeyFrame
    /\ IF NoShape
       THEN Return /\ last_op' = <<"move_side", side, "none">>
       ELSE /\ Redraw(current_shape, <<current_shape_location[1],
                                       current_shape_location[2] + side>>)
            /\ last_op' = <<"move_side", side, "moved">>

move_side(side) ==
    /\ KeyFrame
    /\ IF NoShape
       THEN Return /\ last_op' = <<"move_side", side, "none">>
       ELSE LET new_position == <<current_shape_location[1],
                                  current_shape_location[2] + side>>
            IN IF can_move(grid_list, current_shape, new_position)
               THEN /\ Redraw(current_shape, new_position)
                    /\ last_op' = <<"move_side", side, "moved">>
               ELSE Return /\ last_op' = <<"move_side", side, "rejected">>

\* Variant: the shape is turned whatever can_move answers.
rotate_unchecked ==
    /\ KeyFrame
    /\ IF NoShape
       THEN Return /\ last_op' = <<"rotate", 0, "none">>
       ELSE /\ Redraw(rot90(current_shape), current_shape_location)
            /\ last_op' = <<"rotate", 0, "moved">>

\* Variant: a rotation rejected where the shape is is tried one column to the left.
rotate_with_kick ==
    /\ KeyFrame
    /\ IF NoShape
       THEN Return /\ last_op' = <<"rotate", 0, "none">>
       ELSE LET rotated_shape == rot90(current_shape)
                kicked == <<current_shape_location[1], current_shape_location[2] - 1>>
            IN IF can_move(grid_list, rotated_shape, current_shape_location)
               THEN /\ Redraw(rotated_shape, current_shape_location)
                    /\ last_op' = <<"rotate", 0, "moved">>
               ELSE IF can_move(grid_list, rotated_shape, kicked)
                    THEN /\ Redraw(rotated_shape, kicked)
                         /\ last_op' = <<"rotate", 0, "moved">>
                    ELSE Return /\ last_op' = <<"rotate", 0, "rejected">>

rotate ==
    /\ KeyFrame
    /\ IF NoShape
       THEN Return /\ last_op' = <<"rotate", 0, "none">>
       ELSE LET rotated_shape == rot90(current_shape)
            IN IF can_move(grid_list, rotated_shape, current_shape_location)
               THEN /\ Redraw(rotated_shape, current_shape_location)
                    /\ last_op' = <<"rotate", 0, "moved">>
               ELSE Return /\ last_op' = <<"rotate", 0, "rejected">>

Next ==
    \/ first_shape
    \/ move_down
    \/ move_down_on_key
    \/ \E side \in {-1, 1} : move_side(side)
    \/ rotate

Spec == Init /\ [][Next]_vars

\* Deeper runs on fewer shapes: the I and O pieces, three gated ticks, on a
\* board as wide as the I piece is long, where these pieces complete rows.
InitDeep == Constructed(Len(i_shape[1]), DeepHeight, FirstShapes(DeepShapes), DeepFrames)

SpecDeep == InitDeep /\ [][Next]_vars

\* Longer runs on the I piece alone: four gated ticks, in which four upright
\* I pieces fill the four columns of the board.
InitLong == Constructed(Len(i_shape[1]), DeepHeight, FirstShapes(LongShapes), LongFrames)

SpecLong == InitLong /\ [][Next]_vars

\* main's loop ends every iteration of `while not grid.game_over` with
\* grid.move_down(), whatever keys are pressed: the step that counts a frame.
\* The loop ends at game over, and nothing obliges a call after it.
move_down_called ==
    /\ pc = "loop"
    /\ ~game_over
    /\ frame_counter < horizon
    /\ frame_counter' = frame_counter + 1

\* Runs on the I piece, on a board as wide as it is long, in which the loop
\* goes on calling move_down until game over, for one gated tick more than
\* the rows of the board.
InitLive ==
    Constructed(Len(i_shape[1]), Height, FirstShapes(LiveShapes), FramesPerMove * (Height + 1))

SpecLive == InitLive /\ [][Next]_vars /\ WF_frame_counter(move_down_called)

\* row_is_complete as a function of the board: the boards lock_shape can hand
\* it.  Every row is fully locked or one of three partial rows, and the
\* complete rows lie within four consecutive rows, the tallest a piece spans.
FullRow == [c \in 1..Width |-> 2]
NoRow == [c \in 1..Width |-> 0]
LeftRow == [c \in 1..Width |-> IF c = 1 THEN 2 ELSE 0]
WellRow == [c \in 1..Width |-> IF c = 1 THEN 0 ELSE 2]

ClearBoards ==
    {b \in [1..DeepHeight -> {FullRow, NoRow, LeftRow, WellRow}] :
        \E top \in 1..DeepHeight :
            \A r \in 1..DeepHeight : b[r] = FullRow => (top <= r /\ r <= top + 3)}

InitClear ==
    /\ width = Width
    /\ height = DeepHeight
    /\ choices = SHAPES_LIST
    /\ horizon = 0
    /\ grid_list \in ClearBoards
    /\ current_shape = None
    /\ next_shape \in {o_shape}
    /\ current_shape_location = <<0, 0>>
    /\ game_over = FALSE
    /\ score = 0
    /\ speed = 0
    /\ frame_counter = 0
    /\ fall_speed_mult = 1
    /\ pc = "clear"
    /\ last_op = <<"init", 0, "none">>
    /\ last_lock = -1
    /\ ticks_only = TRUE
    /\ spawned_at = 0

NextClear == row_is_complete_call

SpecClear == InitClear /\ [][NextClear]_vars

\* can_move as a function of the board, the mask and the position: boards
\* whose rows are empty, partly Locked or partly Active, every shape of
\* SHAPES_LIST as it is and turned, every position from one cell outside the
\* board on each side.
ActiveRow == [c \in 1..Width |-> IF c = 2 THEN 1 ELSE 0]

OracleBoards == [1..Height -> {NoRow, LeftRow, WellRow, ActiveRow}]

OraclePositions == (-1..Height) \X (-1..Width)

InitOracle ==
    /\ width = Width
    /\ height = Height
    /\ choices = SHAPES_LIST
    /\ horizon = 0
    /\ grid_list \in OracleBoards
    /\ current_shape = None
    /\ next_shape \in {o_shape}
    /\ current_shape_location = <<0, 0>>
    /\ game_over = FALSE
    /\ score = 0
    /\ speed = 0
    /\ frame_counter = 0
    /\ fall_speed_mult = 1
    /\ pc = "oracle"
    /\ last_op = <<"init", 0, "none">>
    /\ last_lock = -1
    /\ ticks_only = TRUE
    /\ spawned_at = 0

\* self.can_move(shape, new_pos) on its own, once: the answer is kept in last_op.
can_move_call ==
    /\ pc = "oracle"
    /\ pc' = "asked"
    /\ \E shape \in choices \cup {rot90(mask) : mask \in choices} :
       \E new_pos \in OraclePositions :
          last_op' = <<"can_move", <<shape, new_pos>>,
                       can_move(grid_list, shape, new_pos)>>
    /\ UNCHANGED <<grid_list, current_shape, next_shape, current_shape_location,
                   game_over, score, speed, frame_counter, fall_speed_mult,
                   last_lock, ticks_only, spawned_at, inputs>>

NextOracle == can_move_call

SpecOracle == InitOracle /\ [][NextOracle]_vars

(***************************************************************************)
(* The vocabulary of the properties, stated on sets of cells and           *)
(* independently of the methods above.                                     *)
(***************************************************************************)
Cells == (0..(height - 1)) \X (0..(width - 1))

CellAt(g, cell) == g[cell[1] + 1][cell[2] + 1]

ActiveCells(g) == {cell \in Cells : CellAt(g, cell) = 1}

LockedCells(g) == {cell \in Cells : CellAt(g, cell) = 2}

Occupied(shape) ==
    {ij \in (1..Len(shape)) \X (1..Len(shape[1])) : shape[ij[1]][ij[2]] = 1}

Footprint(shape, pos) ==
    {<<pos[1] + ij[1] - 1, pos[2] + ij[2] - 1>> : ij \in Occupied(shape)}

Placeable(g, shape, pos) ==
    \A cell \in Footprint(shape, pos) : cell \in Cells /\ CellAt(g, cell) # 2

HasShape == current_shape # None

Below(pos, rows) == <<pos[1] + rows, pos[2]>>

Beside(pos, cols) == <<pos[1], pos[2] + cols>>

\* The step is a call of the method.
Called(method) == last_op'[1] = method

\* The step is a gated tick that locks the shape.
LockStep ==
    /\ Called("move_down")
    /\ HasShape
    /\ frame_counter' % FramesPerMove = 0
    /\ ~Placeable(grid_list, current_shape, Below(current_shape_location, fall_speed_mult))
    /\ ~Placeable(grid_list, current_shape, Below(current_shape_location, 1))

\* The rows the lock of the current shape completes, 0-based.
RowsCompleted ==
    {r \in 0..(height - 1) :
        \A c \in 0..(width - 1) :
            \/ <<r, c>> \in Footprint(current_shape, current_shape_location)
            \/ CellAt(grid_list, <<r, c>>) = 2}

\* Where the line-clear of the lock leaves a cell of an uncleared row.
Shifted(cell) ==
    <<cell[1] + Cardinality({r \in RowsCompleted : r > cell[1]}), cell[2]>>

\* C1 as stated: every cell is 0, 1 or 2 and the Active cells are exactly the
\* footprint of the current shape (none when there is no shape), so that their
\* number is the number of occupied mask cells.
C1_ActiveIsFootprint ==
    /\ \A cell \in Cells : CellAt(grid_list, cell) \in {0, 1, 2}
    /\ ActiveCells(grid_list) =
           IF HasShape THEN Footprint(current_shape, current_shape_location) ELSE {}
    /\ Cardinality(ActiveCells(grid_list)) =
           IF HasShape THEN Cardinality(Occupied(current_shape)) ELSE 0

\* C1, amended: every cell is 0, 1 or 2; with no shape there is no Active
\* cell; with a shape the Active cells are exactly its footprint, or there are
\* none at all, which happens only to a shape that no tick and no accepted
\* move has drawn since its spawn.
Drawn == last_op[3] \in {"idle", "fell", "retried", "moved"}

C1_FootprintOrUndrawn ==
    /\ \A cell \in Cells : CellAt(grid_list, cell) \in {0, 1, 2}
    /\ ~HasShape => ActiveCells(grid_list) = {}
    /\ HasShape =>
           \/ ActiveCells(grid_list) = Footprint(current_shape, current_shape_location)
           \/ ActiveCells(grid_list) = {} /\ ~Drawn
    /\ Cardinality(ActiveCells(grid_list)) \in
           {0, IF HasShape THEN Cardinality(Occupied(current_shape)) ELSE 0}

\* The shape spawned by a lock has been rotated or moved beside Locked cells
\* and is drawn there.
C1_Witness ==
    /\ HasShape
    /\ last_op[3] = "moved"
    /\ LockedCells(grid_list) # {}
    /\ ActiveCells(grid_list) = Footprint(current_shape, current_shape_location)

\* C2 as stated: after a lock no cell is Active, every footprint cell of an
\* uncleared row is Locked where it was, and exactly one of "a shape is
\* active" and game_over holds.
C2_LockInPlace ==
    [][LockStep =>
         /\ ActiveCells(grid_list') = {}
         /\ \A cell \in Footprint(current_shape, current_shape_location) :
                cell[1] \notin RowsCompleted => CellAt(grid_list', cell) = 2
         /\ (current_shape' # None) # game_over']_vars

\* C2, amended: after a lock no cell is Active, every footprint cell of an
\* uncleared row is Locked at the place the line-clear shifts it to (down by
\* the number of cleared rows below it), and exactly one of "a shape is
\* active" and game_over holds.
C2_LockShifted ==
    [][LockStep =>
         /\ ActiveCells(grid_list') = {}
         /\ \A cell \in Footprint(current_shape, current_shape_location) :
                cell[1] \notin RowsCompleted => CellAt(grid_list', Shifted(cell)) = 2
         /\ (current_shape' # None) # game_over']_vars

\* A lock has just cleared rows below cells of the locked shape that stay.
C2_Witness ==
    /\ last_op = <<"move_down", 0, "locked">>
    /\ last_lock >= 1
    /\ LockedCells(grid_list) # {}
    /\ HasShape

\* C3: a spawn puts the mask at (0, width div 2 - mask width div 2); rejected
\* there, game_over becomes true and no shape is active, accepted, the shape
\* is active there and game_over is as before.  No step that is not a spawn
\* turns game_over from false to true.
SpawnOutcome(shape) ==
    /\ current_shape_location' = <<0, width \div 2 - Len(shape[1]) \div 2>>
    /\ IF Placeable(grid_list', shape, current_shape_location')
       THEN current_shape' = shape /\ game_over' = game_over
       ELSE current_shape' = None /\ game_over' = TRUE

C3_Spawn ==
    [][/\ Called("new_shape") => \E shape \in SHAPES_LIST : SpawnOutcome(shape)
       /\ LockStep => SpawnOutcome(next_shape)
       /\ (~game_over /\ game_over') => (Called("new_shape") \/ LockStep)]_vars

\* A lock has spawned a shape onto Locked cells.
C3_Witness ==
    /\ game_over
    /\ ~HasShape
    /\ last_op = <<"move_down", 0, "locked">>
    /\ LockedCells(grid_list) # {}

\* C4: once game_over is true it stays true.
C4_GameOverStays == [][game_over => game_over']_vars

\* A tick has been called with game_over set.
C4_Witness ==
    /\ game_over
    /\ last_op = <<"move_down", 0, "none">>

\* C5 as stated: with game_over set, no call changes the board, the shape, the
\* next shape, score, speed or frame_counter.
C5_Frozen ==
    [][game_over =>
         UNCHANGED <<grid_list, current_shape, current_shape_location, next_shape,
                     score, speed, game_over, frame_counter>>]_vars

\* C5, amended: with game_over set, no call changes the board, the shape, the
\* next shape, score or speed; move_side, rotate and move_down_on_key leave
\* frame_counter alone and move_down still adds 1 to it.
C5_FrozenButCounter ==
    [][game_over =>
         /\ UNCHANGED <<grid_list, current_shape, current_shape_location, next_shape,
                        score, speed, game_over>>
         /\ frame_counter' = IF Called("move_down") THEN frame_counter + 1
                             ELSE frame_counter]_vars

\* With game_over set, a tick has counted a frame and a key method has then
\* been called.
C5_Witness ==
    /\ game_over
    /\ frame_counter > FramesPerMove
    /\ last_op[1] \in {"move_side", "rotate", "move_down_on_key"}
    /\ last_op[3] = "none"

\* The rows of the board g whose cells are all Locked, as sequence indices.
AllLocked(row) == \A c \in 1..Len(row) : row[c] = 2

NotAllLocked(row) == ~AllLocked(row)

CompleteRows(g) == {r \in 1..Len(g) : AllLocked(g[r])}

\* C6: a line-clear of k complete rows adds 40, 100, 300 or 1200 to score for
\* k = 1, 2, 3 or 4 and nothing for k = 0; score never decreases and is never
\* negative.
PointsFor(k) ==
    CASE k = 0 -> 0 [] k = 1 -> 40 [] k = 2 -> 100 [] k = 3 -> 300 [] k = 4 -> 1200

C6_Points ==
    /\ [](score >= 0)
    /\ [][/\ score' >= score
          /\ Called("row_is_complete") =>
                 score' = score + PointsFor(Cardinality(CompleteRows(grid_list)))]_vars

\* Three complete rows have been cleared at once and paid 300.
C6_Witness ==
    /\ last_op[1] = "row_is_complete"
    /\ Cardinality(CompleteRows(last_op[2])) = 3
    /\ score = 300

\* C7: the line-clear leaves k empty rows followed by the rows that are not
\* all Locked, in their order, k being the number of all-Locked rows; the
\* board keeps height rows of width cells.
FilterAndPrepend(g) ==
    LET kept == SelectSeq(g, NotAllLocked)
    IN [r \in 1..(Len(g) - Len(kept)) |-> [c \in 1..width |-> 0]] \o kept

C7_FilterAndPrepend ==
    [][Called("row_is_complete") =>
         /\ grid_list' = FilterAndPrepend(grid_list)
         /\ Len(grid_list') = height
         /\ \A r \in 1..height : Len(grid_list'[r]) = width
         /\ Cardinality(CompleteRows(grid_list)) = last_lock'
         /\ CompleteRows(grid_list') = {}]_vars

\* Two complete rows with a partial row between them have been cleared, and
\* that row and a different one above them are kept in order.
C7_Witness ==
    /\ last_op[1] = "row_is_complete"
    /\ \E r \in 2..(height - 2) :
          /\ last_op[2][r - 1] = LeftRow
          /\ last_op[2][r] = FullRow
          /\ last_op[2][r + 1] = WellRow
          /\ last_op[2][r + 2] = FullRow
          /\ grid_list[r + 1] = LeftRow
          /\ grid_list[r + 2] = WellRow

\* C8: every tick adds 1 to frame_counter; a tick whose incremented counter
\* is not a multiple of 16 changes neither the location nor the mask and
\* locks nothing; with only ticks called since the spawn at frame 0, the shape
\* is at its spawn location through frame 15 and one row lower at frame 16.
C8_GatedGravity ==
    /\ [][Called("move_down") =>
            /\ frame_counter' = frame_counter + 1
            /\ frame_counter' % 16 # 0 =>
                   /\ current_shape_location' = current_shape_location
                   /\ current_shape' = current_shape
                   /\ LockedCells(grid_list') = LockedCells(grid_list)
                   /\ UNCHANGED <<next_shape, score, speed, game_over>>]_vars
    /\ []((ticks_only /\ HasShape) =>
            /\ frame_counter < 16 =>
                   current_shape_location = <<0, width \div 2 - Len(current_shape[1]) \div 2>>
            /\ (frame_counter >= 16 /\ frame_counter < 32) =>
                   current_shape_location = <<1, width \div 2 - Len(current_shape[1]) \div 2>>)

\* Sixteen ticks and nothing else have been called, and the shape has moved.
C8_Witness ==
    /\ ticks_only
    /\ HasShape
    /\ frame_counter = 16
    /\ current_shape_location[1] = 1

\* The step is a tick on an active shape whose incremented counter is a
\* multiple of 16.
GatedTick ==
    /\ Called("move_down")
    /\ HasShape
    /\ frame_counter' % FramesPerMove = 0

\* C10: move_side and move_down_on_key on an active shape: rejected by the
\* oracle at the one-cell offset, the call changes nothing of the board, the
\* location, the mask, the next shape, score, speed and game_over; accepted,
\* the location moves by exactly that offset and the mask is unchanged.
Translated(target) ==
    IF Placeable(grid_list, current_shape, target)
    THEN current_shape_location' = target /\ current_shape' = current_shape
    ELSE UNCHANGED <<grid_list, current_shape_location, current_shape, next_shape,
                     score, speed, game_over>>

C10_Translate ==
    [][/\ (Called("move_side") /\ HasShape) =>
              /\ last_op'[2] \in {-1, 1}
              /\ Translated(Beside(current_shape_location, last_op'[2]))
       /\ (Called("move_down_on_key") /\ HasShape) =>
              Translated(Below(current_shape_location, 1))]_vars

\* A move to the side has been rejected because of a Locked cell.
C10_Witness ==
    /\ last_op[1] = "move_side"
    /\ last_op[3] = "rejected"
    /\ HasShape
    /\ \E cell \in Footprint(current_shape, Beside(current_shape_location, last_op[2])) :
          cell \in Cells /\ CellAt(grid_list, cell) = 2

\* The mask turned by 90 degrees counter-clockwise: as many rows as the mask
\* has columns, the cell (i, j) of the mask at (columns + 1 - j, i).
QuarterTurn(shape, turned) ==
    /\ Len(turned) = Len(shape[1])
    /\ \A r \in 1..Len(turned) : Len(turned[r]) = Len(shape)
    /\ \A i \in 1..Len(shape) : \A j \in 1..Len(shape[1]) :
           turned[Len(shape[1]) + 1 - j][i] = shape[i][j]

\* C11: rotate never changes the location; when the turned mask is not
\* placeable at the location (outside the board or on a Locked cell) the board,
\* the mask and the location are unchanged; when it is, the mask becomes the
\* turned mask.
C11_RotateInPlace ==
    [][(Called("rotate") /\ HasShape) =>
         /\ current_shape_location' = current_shape_location
         /\ \E turned \in {rot90(current_shape)} :
                /\ QuarterTurn(current_shape, turned)
                /\ IF Placeable(grid_list, turned, current_shape_location)
                   THEN current_shape' = turned
                   ELSE UNCHANGED <<grid_list, current_shape>>]_vars

\* A rotation has been rejected although the turned mask would fit one column
\* to the left.
C11_Witness ==
    /\ last_op = <<"rotate", 0, "rejected">>
    /\ HasShape
    /\ \E turned \in {rot90(current_shape)} :
          /\ ~Placeable(grid_list, turned, current_shape_location)
          /\ Placeable(grid_list, turned, Beside(current_shape_location, -1))

\* C12: can_move answers false exactly when some occupied mask cell, offset by
\* the position, is outside the board or on a Locked cell, and true otherwise,
\* footprints on Empty and Active cells included; the call changes nothing of
\* the Grid.
OutsideOrLocked(g, cell) ==
    \/ cell[1] < 0 \/ cell[1] >= height
    \/ cell[2] < 0 \/ cell[2] >= width
    \/ g[cell[1] + 1][cell[2] + 1] = 2

C12_Oracle ==
    [][Called("can_move") =>
         /\ last_op'[3] = ~(\E cell \in Footprint(last_op'[2][1], last_op'[2][2]) :
                               OutsideOrLocked(grid_list, cell))
         /\ UNCHANGED <<grid_list, current_shape, current_shape_location, next_shape,
                        game_over, score, speed, frame_counter, fall_speed_mult>>]_vars

\* can_move has answered true for a footprint inside the board with a cell on
\* an Active cell and a cell beside a Locked one.
C12_Witness ==
    /\ last_op[1] = "can_move"
    /\ last_op[3] = TRUE
    /\ \E cell \in Footprint(last_op[2][1], last_op[2][2]) : CellAt(grid_list, cell) = 1
    /\ LockedCells(grid_list) # {}

\* C13: a lock spawns the shape that was the next shape before the lock (at
\* that shape's spawn location; no shape when the spawn is blocked) and stores
\* one of the seven shapes as the next shape; no other step changes the next
\* shape.
C13_NextSlot ==
    [][IF LockStep
       THEN /\ current_shape' \in {next_shape, None}
            /\ current_shape' = None <=> game_over'
            /\ current_shape_location' =
                   <<0, width \div 2 - Len(next_shape[1]) \div 2>>
            /\ next_shape' \in SHAPES_LIST
       ELSE next_shape' = next_shape]_vars

\* A lock has spawned the stored shape and stored a different one.
C13_Witness ==
    /\ last_op = <<"move_down", 0, "locked">>
    /\ HasShape
    /\ next_shape # current_shape
    /\ next_shape \in SHAPES_LIST

\* C14: a step that is not a lock leaves the set of Locked cells as it is; a
\* lock leaves as Locked cells exactly the old Locked cells and the footprint
\* of the locked shape, without the completed rows and shifted by the
\* line-clear.
C14_LockedPermanent ==
    [][IF LockStep
       THEN LockedCells(grid_list') =
                {Shifted(cell) :
                    cell \in {kept \in LockedCells(grid_list)
                                       \cup Footprint(current_shape, current_shape_location) :
                                 kept[1] \notin RowsCompleted}}
       ELSE LockedCells(grid_list') = LockedCells(grid_list)]_vars

\* A rotation has been accepted and has drawn the shape directly above or
\* beside a Locked cell.
C14_Witness ==
    /\ last_op = <<"rotate", 0, "moved">>
    /\ HasShape
    /\ \E cell \in Footprint(current_shape, current_shape_location) :
          \/ Below(cell, 1) \in LockedCells(grid_list)
          \/ Beside(cell, 1) \in LockedCells(grid_list)

\* C15: every lock clears exactly the rows it completes, at most four of
\* them, so that points_granted is read inside its four entries; no row
\* whose cells are all Locked is left on the board by any step.
C15_AtMostFourRows ==
    /\ [](last_lock \in -1..Len(points_granted))
    /\ [](CompleteRows(grid_list) = {})
    /\ [][LockStep =>
            /\ last_lock' = Cardinality(RowsCompleted)
            /\ Cardinality(RowsCompleted) \in 0..4]_vars

\* A lock has cleared four rows at once and the game goes on.
C15_Witness ==
    /\ last_op = <<"move_down", 0, "locked">>
    /\ last_lock = 4
    /\ score >= 1200
    /\ ~game_over

\* The step locks the shape where it is: its footprint joins the Locked
\* cells (up to the line-clear) and the shape is replaced by the next one.
LockedWhereItIs ==
    /\ last_lock' = Cardinality(RowsCompleted)
    /\ LockedCells(grid_list') =
           {Shifted(cell) :
               cell \in {kept \in LockedCells(grid_list)
                                  \cup Footprint(current_shape, current_shape_location) :
                            kept[1] \notin RowsCompleted}}
    /\ current_shape' \in {next_shape, None}

\* The step locks nothing: the Locked cells, the next shape, score, speed and
\* game_over are as before and a shape that was active still is.
NoLock ==
    /\ last_lock' = -1
    /\ LockedCells(grid_list') = LockedCells(grid_list)
    /\ HasShape => current_shape' # None
    /\ UNCHANGED <<next_shape, score, speed, game_over>>

\* C16: with fall_speed_mult 1, a gated tick on an active shape moves it down
\* by exactly one row without locking when it is placeable one row below, and
\* locks it where it is otherwise; move_side, rotate and move_down_on_key
\* never lock.
C16_FallOrLock ==
    [][/\ (GatedTick /\ fall_speed_mult = 1) =>
              IF Placeable(grid_list, current_shape, Below(current_shape_location, 1))
              THEN /\ current_shape_location' = Below(current_shape_location, 1)
                   /\ current_shape' = current_shape
                   /\ NoLock
              ELSE LockedWhereItIs
       /\ (Called("move_side") \/ Called("rotate") \/ Called("move_down_on_key")) =>
              NoLock]_vars

\* With key methods called in between, a gated tick at frame 32 or later has
\* locked a shape without clearing a row, on a board that still holds the
\* cells of an earlier lock.
C16_Witness ==
    /\ last_op = <<"move_down", 0, "locked">>
    /\ ~ticks_only
    /\ frame_counter >= 2 * FramesPerMove
    /\ last_lock = 0
    /\ Cardinality(LockedCells(grid_list)) >= 8

\* The step is a tick whose incremented counter is not a multiple of 16.
UngatedTick ==
    /\ Called("move_down")
    /\ frame_counter' % FramesPerMove # 0

\* C17 as stated: a tick that is not gated leaves every cell of the board
\* unchanged, and of the Grid changes frame_counter only.
C17_UngatedNoOp ==
    [][UngatedTick =>
         /\ grid_list' = grid_list
         /\ UNCHANGED <<current_shape, current_shape_location, next_shape,
                        score, speed, game_over>>]_vars

\* C17, amended: a tick that is not gated changes frame_counter and, of the
\* board, at most the footprint of the active shape: every footprint cell is
\* Active after it and every other cell is as before; the board is changed
\* only for a shape that nothing has drawn since its spawn, whose footprint
\* was Empty.
C17_UngatedDrawsUndrawn ==
    [][UngatedTick =>
         /\ \A cell \in Cells :
                CellAt(grid_list', cell) =
                    IF HasShape /\ cell \in Footprint(current_shape, current_shape_location)
                    THEN 1
                    ELSE CellAt(grid_list, cell)
         /\ grid_list' # grid_list =>
                /\ ~Drawn
                /\ \A cell \in Footprint(current_shape, current_shape_location) :
                       CellAt(grid_list, cell) = 0
         /\ UNCHANGED <<current_shape, current_shape_location, next_shape,
                        score, speed, game_over>>]_vars

\* The first tick after the first spawn, with no key method called, has drawn
\* the shape.
C17_Witness ==
    /\ last_op = <<"move_down", 0, "idle">>
    /\ ticks_only
    /\ frame_counter = 1
    /\ HasShape
    /\ ActiveCells(grid_list) = Footprint(current_shape, current_shape_location)

\* C18: score and speed change only in a lock that completes at least one
\* row: such a lock applies the speed factor exactly once and raises score,
\* a lock that completes no row and every step that is not a lock leave
\* score and speed unchanged.  (A line-clear called on its own counts as the
\* lock it is part of.)
C18_SpeedOncePerClear ==
    [][/\ LockStep =>
              IF RowsCompleted = {}
              THEN UNCHANGED <<score, speed>>
              ELSE speed' = speed + 1 /\ score' > score
       /\ Called("row_is_complete") =>
              IF CompleteRows(grid_list) = {}
              THEN UNCHANGED <<score, speed>>
              ELSE speed' = speed + 1 /\ score' > score
       /\ ~(LockStep \/ Called("row_is_complete")) => UNCHANGED <<score, speed>>]_vars

\* A lock that cleared two rows at once has applied the speed factor once.
C18_Witness ==
    /\ last_op = <<"move_down", 0, "locked">>
    /\ last_lock = 2
    /\ speed = 1
    /\ score = 100

\* C19: whenever a shape is active, every occupied cell of its mask, offset
\* by its location, is inside the board and not on a Locked cell.
C19_PlacementAccepted ==
    HasShape =>
        \A cell \in Footprint(current_shape, current_shape_location) :
            /\ cell[1] \in 0..(height - 1)
            /\ cell[2] \in 0..(width - 1)
            /\ grid_list[cell[1] + 1][cell[2] + 1] # 2

\* A move to the side has put the shape against the right wall, with a
\* Locked cell directly below it.
C19_Witness ==
    /\ last_op = <<"move_side", 1, "moved">>
    /\ HasShape
    /\ \E cell \in Footprint(current_shape, current_shape_location) :
          cell[2] = width - 1
    /\ \E cell \in Footprint(current_shape, current_shape_location) :
          Below(cell, 1) \in LockedCells(grid_list)

\* The frames at which a shape can be spawned while a whole fall is left.
SpawnFrames == {FramesPerMove * n : n \in 0..1}

\* C20: while a shape is active no step but its lock lowers the row of its
\* location; every gated tick raises that row or locks the shape; a shape is
\* active for fewer than 16 * height ticks after its spawn before the tick
\* that locks it; and with move_down called again and again, every shape
\* spawned while 16 * height ticks are left is locked, whatever key methods
\* are called in between.
C20_EventuallyLocked ==
    /\ [][(HasShape /\ current_shape' # None /\ spawned_at' = spawned_at) =>
              current_shape_location'[1] >= current_shape_location[1]]_vars
    /\ [][GatedTick =>
              \/ /\ current_shape_location'[1] > current_shape_location[1]
                 /\ spawned_at' = spawned_at
              \/ /\ last_lock' >= 0
                 /\ spawned_at' = frame_counter']_vars
    /\ [](HasShape => frame_counter - spawned_at < FramesPerMove * height)
    /\ \A f \in SpawnFrames :
           (HasShape /\ spawned_at = f) ~> (spawned_at > f)

\* With key methods called in between, the first shape has reached the last
\* row and has been locked by the tick 16 * height, clearing that row.
C20_Witness ==
    /\ last_op = <<"move_down", 0, "locked">>
    /\ ~ticks_only
    /\ frame_counter = FramesPerMove * height
    /\ spawned_at = frame_counter
    /\ LockedCells(grid_list) = {}
    /\ score = 40

====
